---- MODULE Spec2Model ----
(***************************************************************************)
(* Viewport-driven interaction engine of the college app:                  *)
(*   - useLenis / useScrollTrigger   (scroll-trigger hook, its scroll      *)
(*     position source and its effects)                                    *)
(*   - PinScrollTrigger, SnapScrollTrigger (pin and snap components)       *)
(*   - SmoothScrollProvider          (context around the scroll engine)    *)
(*   - MagneticEffect                (pointer-proximity displacement)      *)
(* and three of its screens:                                               *)
(*   - TaskBoard                     (drag and drop between columns)       *)
(*   - AuthManager, authAPI, storage (login, signup, OTP verification)     *)
(*   - OtpVerification               (the resend cooldown)                 *)
(*                                                                         *)
(* One action is one browser event or React update together with the       *)
(* render and the effects it causes: React commits the render and flushes  *)
(* its effects before the next event is handled.                           *)
(*                                                                         *)
(* Pixel values are integers; layout sizes are even so that height / 2 is  *)
(* exact.  The trigger progress is a fraction [num, den] in lowest terms,  *)
(* 0/0 standing for NaN.  Magnetic displacements are kept as numerators    *)
(* over the common denominator DispDen.                                    *)
(***************************************************************************)
EXTENDS Integers, Sequences, FiniteSets, TLC

\* ------------------------------------------------------------------ bounds
MaxScroll == 6
MaxProgress == 100

\* ----------------------------------------------------------- plain helpers
Abs(x) == IF x < 0 THEN 0 - x ELSE x

RECURSIVE GCD(_, _)
GCD(a, b) == IF b = 0 THEN a ELSE GCD(b, a % b)

NaN == [num |-> 0, den |-> 0]

\* the value of the floating point division n / d for d >= 0, n >= 0
Frac(n, d) ==
  IF d = 0 THEN NaN
  ELSE LET g == GCD(n, d) IN [num |-> n \div g, den |-> d \div g]

\* the value n / d for d > 0 and any integer n
Rat(n, d) ==
  LET g == GCD(Abs(n), d) IN [num |-> n \div g, den |-> d \div g]

\* a <= b on numbers; false when either is NaN
RatLeq(a, b) == a.den # 0 /\ b.den # 0 /\ a.num * b.den <= b.num * a.den

\* =========================================================================
\*  useScrollTrigger and its scroll source useLenis
\* =========================================================================

\* config.trigger.start / config.trigger.end
SymSpec(e, v) == [kind |-> "string", el |-> e, vp |-> v, n |-> 0]
NumSpec(k) == [kind |-> "number", el |-> "", vp |-> "", n |-> k]
Undefined == [kind |-> "undefined", el |-> "", vp |-> "", n |-> 0]

StartSpecs == {SymSpec("top", "top"), SymSpec("center", "bottom"), NumSpec(2)}
EndSpecs ==
  {SymSpec("bottom", "top"), SymSpec("bottom", "center"), NumSpec(4), Undefined}

\* the element's document-space top and height, and window.innerHeight
Layouts ==
  { [top |-> 0, height |-> 2, win |-> 2],
    [top |-> 2, height |-> 2, win |-> 4],
    [top |-> 2, height |-> 4, win |-> 2],
    [top |-> 0, height |-> 4, win |-> 4] }

Scrolls == 0..MaxScroll

NoInstance ==
  [null |-> TRUE, progress |-> NaN, direction |-> 0, isActive |-> FALSE,
   start |-> 0, end |-> 0]

\* config.animation.from / .to and keyframe properties: property -> number
NoProps == [k \in {} |-> 0]

Keyframe(pn, pd, props) == [progress |-> Rat(pn, pd), properties |-> props]

\* the part of the config read by the scrub, timeline and toggle effects;
\* hasTimeline is FALSE for config.timeline undefined
MakeConfig(scrub, from, to, hasTimeline, timeline, onEnter, onLeave) ==
  [scrub |-> scrub, from |-> from, to |-> to, hasTimeline |-> hasTimeline,
   timeline |-> timeline, onEnter |-> onEnter, onLeave |-> onLeave]

DefaultConfig ==
  MakeConfig(FALSE, [opacity |-> 0, y |-> 4], [opacity |-> 1, y |-> 0],
             FALSE, <<>>, "play", "reverse")

\* timelines sorted ascending by progress: one starting at progress 0, one
\* whose first keyframe is at progress 1/2
TimelineFromZero ==
  << Keyframe(0, 1, [opacity |-> 0]), Keyframe(1, 2, [opacity |-> 1]),
     Keyframe(1, 1, [opacity |-> 2]) >>

TimelineFromHalf ==
  << Keyframe(1, 2, [opacity |-> 1]), Keyframe(1, 1, [opacity |-> 2]) >>

Configs ==
  { DefaultConfig,
    MakeConfig(TRUE, [opacity |-> 0, y |-> 4], [opacity |-> 1, y |-> 0],
               FALSE, <<>>, "none", "none"),
    MakeConfig(TRUE, [opacity |-> 0, y |-> 4], [opacity |-> 1],
               FALSE, <<>>, "none", "none"),
    MakeConfig(FALSE, NoProps, NoProps, TRUE, TimelineFromZero, "none", "none"),
    MakeConfig(FALSE, NoProps, NoProps, TRUE, TimelineFromHalf, "none", "none"),
    MakeConfig(FALSE, [opacity |-> 0, y |-> 4], [opacity |-> 1, y |-> 0],
               FALSE, <<>>, "pause", "reset") }

VARIABLES
  mounted,     \* the component using the hook is mounted
  everMounted, \* it has been mounted at some time
  cfgStart,    \* config.trigger.start
  cfgEnd,      \* config.trigger.end
  layout,      \* geometry of the element and the viewport
  scrollData,  \* useLenis state: [scroll, direction]
  start,       \* memoized start
  end,         \* memoized end
  progress,    \* memoized progress
  isActive,    \* memoized isActive
  instance,    \* useState instance
  fired,       \* consumer callbacks invoked by the last operation, in order
  op,          \* the last operation
  src,         \* useLenis effect: [phase, destroyed, raf, listener]
  delivered,   \* the last operation called setScrollData
  config,      \* config.trigger.scrub, config.animation, config.timeline, config.toggleActions
  controlCalls, \* calls on the animation controls made by the last operation, in order
  escaped      \* an exception of a consumer callback left the hook in the last operation

trigVars ==
  <<mounted, everMounted, cfgStart, cfgEnd, layout, scrollData, start, end,
    progress, isActive, instance, fired, op, src, delivered, config,
    controlCalls, escaped>>

\* =========================================================================
\*  MagneticEffect
\* =========================================================================
VARIABLES
  isHovering,  \* useState isHovering
  mouseX,      \* motion value mouseX (spring target)
  mouseY,      \* motion value mouseY
  x,           \* spring value following mouseX
  y,           \* spring value following mouseY
  behavior,    \* config.behavior
  near,        \* the last pointer sample was within range
  hoverLog,    \* onHover calls made by the last operation, in order
  mOp          \* the last operation

magVars == <<isHovering, mouseX, mouseY, x, y, behavior, near, hoverLog, mOp>>

\* =========================================================================
\*  PinScrollTrigger
\* =========================================================================
VARIABLES
  pinMounted,  \* the component is mounted
  pinLayout,   \* geometry of the container and the viewport
  pinSpacing,  \* config.pinSpacing !== false
  pinScroll,   \* scrollData.scroll of the component's own useLenis
  pinStart,    \* memoized start
  pinEnd,      \* memoized end
  isPinned,    \* useState isPinned
  pinSrc,      \* useLenis effect of the component: [phase, destroyed, raf, listener]
  pinOp        \* the last operation

pinVars ==
  <<pinMounted, pinLayout, pinSpacing, pinScroll, pinStart, pinEnd, isPinned,
    pinSrc, pinOp>>

\* =========================================================================
\*  SnapScrollTrigger
\* =========================================================================
VARIABLES
  snapMounted,   \* the component is mounted
  snapPoints,    \* the snapPoints prop, in hundredths
  snapProgress,  \* scrollData.progress of the component's own useLenis, in hundredths
  activeSnap,    \* useState activeSnap (0-based index)
  snapSrc,       \* useLenis effect of the component: [phase, destroyed, raf, listener]
  snapOp         \* the last operation

snapVars == <<snapMounted, snapPoints, snapProgress, activeSnap, snapSrc, snapOp>>

\* =========================================================================
\*  SmoothScrollProvider
\* =========================================================================
VARIABLES
  provMounted,    \* the provider is mounted (isMounted)
  lenis,          \* useLenis(...) of lenis/react returned an engine instance
  enabled,        \* the enabled prop
  isInitialized,  \* useState isInitialized
  destroyCalled,  \* destroy() of the context value has destroyed the engine
  eventCallbacks, \* the registry: event -> callbacks in insertion order
  engineCalls,    \* calls forwarded to the engine by the last operation
  invoked,        \* registry callbacks invoked by the last operation
  warned,         \* callbacks whose exception the last operation caught
  emitted,        \* the event of the last operation if it was emit, else ""
  subscribed,     \* per event, the callbacks passed to on() and not to off() since
  provOp          \* the last operation

provVars ==
  <<provMounted, lenis, enabled, isInitialized, destroyCalled, eventCallbacks,
    engineCalls, invoked, warned, emitted, subscribed, provOp>>

\* =========================================================================
\*  TaskBoard
\* =========================================================================
VARIABLES
  boardMounted,    \* the board is mounted
  isLoading,       \* useState isLoading
  columns,         \* useState columns: per column id its tasks in order
  filterPriority,  \* useState filterPriority
  draggedTask,     \* useState draggedTask ("" for null)
  drag,            \* the drag in progress in the drag-and-drop library
  dropResult,      \* the DropResult the last operation received, if any
  boardOp          \* the last operation

boardVars ==
  <<boardMounted, isLoading, columns, filterPriority, draggedTask, drag,
    dropResult, boardOp>>

\* =========================================================================
\*  AuthManager
\* =========================================================================
VARIABLES
  authMounted,   \* the page renders AuthManager (!isAuthenticated)
  authState,     \* useState authState
  loading,       \* useState loading
  pendingUser,   \* useState pendingUser (NoUser for null)
  pendingToken,  \* useState pendingToken ("" for null)
  authError,     \* useState error ("" for null)
  stored,        \* localStorage auth_user / auth_token / auth_timestamp
  request,       \* the authAPI call in flight
  authCalls,     \* users onAuthenticated was invoked with by the last operation
  authOp         \* the last operation

authVars ==
  <<authMounted, authState, loading, pendingUser, pendingToken, authError,
    stored, request, authCalls, authOp>>

\* =========================================================================
\*  OtpVerification
\* =========================================================================
VARIABLES
  otpMounted,      \* the component is mounted (the interval is running)
  resendCooldown,  \* prop resendCooldown
  timeRemaining,   \* useState timeRemaining
  canResend,       \* useState canResend
  otpError,        \* useState error
  resendPending,   \* onResend() promises not settled yet
  sinceResend,     \* interval ticks since onResend was last invoked (-1: never)
  otpOp            \* the last operation

otpVars ==
  <<otpMounted, resendCooldown, timeRemaining, canResend, otpError,
    resendPending, sinceResend, otpOp>>

vars ==
  <<trigVars, magVars, pinVars, snapVars, provVars, boardVars, authVars, otpVars>>



\* =========================================================================
\*  useScrollTrigger: derived values
\* =========================================================================

\* triggerPos === 'top' ? 0 : 'center' ? rect.height / 2 : 'bottom' ? rect.height : 0
TriggerOffset(pos, height) ==
  IF pos = "top" THEN 0
  ELSE IF pos = "center" THEN height \div 2
  ELSE IF pos = "bottom" THEN height
  ELSE 0

\* viewportPos === 'top' ? 0 : 'center' ? windowHeight / 2 : 'bottom' ? windowHeight : 0
ViewportOffset(pos, win) ==
  IF pos = "top" THEN 0
  ELSE IF pos = "center" THEN win \div 2
  ELSE IF pos = "bottom" THEN win
  ELSE 0

\* rect.top + scrollTop is the element's document-space top, l.top.
\* hasElement is elementRef.current !== null at the time of the call.
calculateTriggerPoints(hasElement, cs, ce, l) ==
  IF ~hasElement THEN [start |-> 0, end |-> 0]
  ELSE
    LET s == IF cs.kind = "string"
             THEN l.top + TriggerOffset(cs.el, l.height) - ViewportOffset(cs.vp, l.win)
             ELSE l.top + cs.n
        e == IF ce.kind = "string"
             THEN l.top + TriggerOffset(ce.el, l.height) - ViewportOffset(ce.vp, l.win)
             ELSE s + (IF ce.n # 0 THEN ce.n ELSE l.height)
    IN [start |-> s, end |-> e]

ProgressOffByOne(scroll, st, en) ==
  IF scroll < st THEN Frac(0, 1)
  ELSE IF scroll >= en THEN Frac(1, 1)
  ELSE Frac(scroll - st, (en - st) + 1)

ProgressAt(scroll, st, en) ==
  IF scroll < st THEN Frac(0, 1)
  ELSE IF scroll > en THEN Frac(1, 1)
  ELSE Frac(scroll - st, en - st)

IsActiveStrict(scroll, st, en) == scroll > st /\ scroll < en

IsActiveAt(scroll, st, en) == scroll >= st /\ scroll <= en

Call(name, inst) == [cb |-> name, self |-> inst]

\* a call controls.set(values) or controls.start(values) made by an effect
Control(fn, by, values) == [fn |-> fn, by |-> by, values |-> values]

AsRats(props) == [k \in DOMAIN props |-> Rat(props[k], 1)]

\* fromValue + (toValue - fromValue) * progress
Lerp(f, t, prog) ==
  IF prog.den = 0 THEN NaN
  ELSE Rat(f * prog.den + (t - f) * prog.num, prog.den)

\* the scrub effect: Object.keys(to).forEach(...), fromValue = from[key] || 0
ScrubEffect(c, act, prog) ==
  IF c.scrub /\ act
  THEN <<Control("set", "scrub",
                 [k \in DOMAIN c.to |->
                    Lerp(IF k \in DOMAIN c.from THEN c.from[k] ELSE 0,
                         c.to[k], prog)])>>
  ELSE <<>>

\* config.timeline.reduce((prev, curr) => curr.progress <= progress ? curr : prev)
\* without an initial value: prev starts as the first keyframe and the
\* callback is first called for the second one
RECURSIVE ReduceTimeline(_, _, _, _)
ReduceTimeline(frames, prog, prev, i) ==
  IF i > Len(frames) THEN prev
  ELSE ReduceTimeline(frames, prog,
                      IF RatLeq(frames[i].progress, prog) THEN frames[i] ELSE prev,
                      i + 1)

CurrentKeyframe(frames, prog) == ReduceTimeline(frames, prog, frames[1], 2)

\* the timeline effect
TimelineEffect(c, act, prog) ==
  IF c.hasTimeline /\ act
  THEN <<Control("set", "timeline",
                 AsRats(CurrentKeyframe(c.timeline, prog).properties))>>
  ELSE <<>>

\* the controls.start calls of the toggle-action effect
ToggleControls(act, inst, c) ==
  IF act /\ ~inst.isActive
  THEN IF c.onEnter = "play"
       THEN <<Control("start", "onEnter", AsRats(c.to))>> ELSE <<>>
  ELSE IF ~act /\ inst.isActive
  THEN IF c.onLeave = "reverse"
       THEN <<Control("start", "onLeave", AsRats(c.from))>> ELSE <<>>
  ELSE <<>>

ToggleEffectNoCompare(act, inst) ==
  IF act THEN <<Call("onEnter", inst)>> ELSE <<Call("onLeave", inst)>>

\* the toggle-action effect, run with the isActive of this render and the
\* instance state of this render (instance?.isActive is falsy for null)
ToggleEffect(act, inst) ==
  IF act /\ ~inst.isActive THEN <<Call("onEnter", inst)>>
  ELSE IF ~act /\ inst.isActive THEN <<Call("onLeave", inst)>>
  ELSE <<>>

NewInstance(prog, dir, act, st, en) ==
  [null |-> FALSE, progress |-> prog, direction |-> dir, isActive |-> act,
   start |-> st, end |-> en]

\* One render of the hook and the effects of its commit.  The state
\* variables hold the values of the previous commit, against which the
\* dependency arrays are compared.
\*   sd, st, en   scrollData and memoized start/end of this render
\*   inst         instance state of this render
\*   c            config of this render
\*   first        first render (every effect runs)
\*   cfgNew       config is a new object
\*   depNew       calculateTriggerPoints or config.callbacks is a new object
\*   instNew      the instance state was replaced before this render
\*   thr          the consumer callbacks that throw when called
\* No callback is called inside a try: an exception leaves the effect that
\* made the call, React skips the remaining effects of the commit and
\* unmounts the component.
\* The instance effect replaces the instance; the render this causes runs
\* the toggle effect with isActive = instance.isActive, which fires nothing.
Render(sd, st, en, inst, c, first, cfgNew, depNew, instNew, thr) ==
  LET act == IsActiveAt(sd.scroll, st, en)
      prog == ProgressAt(sd.scroll, st, en)
      animRuns == first \/ prog # progress \/ act # isActive \/ cfgNew
      toggleRuns == first \/ act # isActive \/ instNew \/ cfgNew
      toggled == IF toggleRuns THEN ToggleEffect(act, inst) ELSE <<>>
      instRuns == \/ first
                  \/ prog # progress
                  \/ sd.direction # scrollData.direction
                  \/ act # isActive
                  \/ st # start
                  \/ en # end
                  \/ depNew
      made == NewInstance(prog, sd.direction, act, st, en)
      toggleThrows == toggled # <<>> /\ toggled[1].cb \in thr
      instReached == instRuns /\ ~toggleThrows
  IN [isActive |-> act,
      progress |-> prog,
      instance |-> IF instReached THEN made ELSE inst,
      fired |-> toggled \o (IF instReached THEN <<Call("onUpdate", made)>> ELSE <<>>),
      escaped |-> toggleThrows \/ (instReached /\ "onUpdate" \in thr),
      controlCalls |->
        (IF animRuns THEN ScrubEffect(c, act, prog) ELSE <<>>)
        \o (IF animRuns THEN TimelineEffect(c, act, prog) ELSE <<>>)
        \o (IF toggleRuns THEN ToggleControls(act, inst, c) ELSE <<>>)]

\* the useLenis cleanup: `if (lenis) lenis.destroy()`
Cleanup(sr) == [sr EXCEPT !.destroyed = (sr.phase = "enhanced")]

\* m, sr: mounted and src as the operation leaves them when no exception
\* leaves the commit
ApplyRender(r, m, sr) ==
  /\ isActive' = r.isActive
  /\ progress' = r.progress
  /\ instance' = r.instance
  /\ fired' = r.fired
  /\ controlCalls' = r.controlCalls
  /\ escaped' = r.escaped
  /\ mounted' = (m /\ ~r.escaped)
  /\ src' = IF r.escaped THEN Cleanup(sr) ELSE sr

\* =========================================================================
\*  useScrollTrigger / useLenis: operations
\* =========================================================================

\* The component mounts: first render with elementRef.current = null and
\* scrollData = {scroll: 0, direction: 1}; useLenis starts initLenis().
Mount(cs, ce, l, c, thr) ==
  /\ ~everMounted
  /\ config' = c
  /\ everMounted' = TRUE
  /\ cfgStart' = cs
  /\ cfgEnd' = ce
  /\ layout' = l
  /\ LET tp == calculateTriggerPoints(FALSE, cs, ce, l)
     IN /\ start' = tp.start
        /\ end' = tp.end
        /\ ApplyRender(Render(scrollData, tp.start, tp.end, NoInstance, c,
                              TRUE, TRUE, TRUE, FALSE, thr),
                       TRUE, [src EXCEPT !.phase = "importing"])
  /\ delivered' = FALSE
  /\ op' = "Mount"
  /\ UNCHANGED <<magVars, pinVars, snapVars, provVars,
                 boardVars, authVars, otpVars>>
  /\ UNCHANGED scrollData

\* await import('@studio-freight/lenis') resolves: the engine is created and
\* the frame loop is started, whether or not the component is still mounted.
ImportResolved ==
  /\ src.phase = "importing"
  /\ src' = [src EXCEPT !.phase = "enhanced", !.raf = TRUE]
  /\ delivered' = FALSE
  /\ fired' = <<>>
  /\ controlCalls' = <<>>
  /\ escaped' = FALSE
  /\ op' = "ImportResolved"
  /\ UNCHANGED <<magVars, pinVars, snapVars, provVars,
                 boardVars, authVars, otpVars>>
  /\ UNCHANGED <<mounted, everMounted, cfgStart, cfgEnd, layout, scrollData,
                 start, end, progress, isActive, instance, config>>

\* the import throws: the native scroll listener is added; the function
\* that removes it is returned by initLenis and dropped.
ImportFailed ==
  /\ src.phase = "importing"
  /\ src' = [src EXCEPT !.phase = "fallback", !.listener = TRUE]
  /\ delivered' = FALSE
  /\ fired' = <<>>
  /\ controlCalls' = <<>>
  /\ escaped' = FALSE
  /\ op' = "ImportFailed"
  /\ UNCHANGED <<magVars, pinVars, snapVars, provVars,
                 boardVars, authVars, otpVars>>
  /\ UNCHANGED <<mounted, everMounted, cfgStart, cfgEnd, layout, scrollData,
                 start, end, progress, isActive, instance, config>>

\* setScrollData(sd) on a mounted hook re-renders it; on an unmounted one
\* React drops the update.
Deliver(sd, thr) ==
  /\ delivered' = TRUE
  /\ IF mounted
     THEN /\ scrollData' = sd
          /\ ApplyRender(Render(sd, start, end, instance, config,
                                FALSE, FALSE, FALSE, FALSE, thr),
                         mounted, src)
     ELSE /\ fired' = <<>>
          /\ controlCalls' = <<>>
          /\ escaped' = FALSE
          /\ UNCHANGED <<mounted, src>>
          /\ UNCHANGED <<scrollData, progress, isActive, instance>>

\* One animation frame of the loop raf: lenis.raf(time), then
\* requestAnimationFrame(raf) again.  A live engine may emit 'scroll' with
\* the scroll value s (emits = TRUE); a destroyed one emits nothing.
RafTick(s, emits, thr) ==
  /\ src.raf
  /\ IF emits /\ ~src.destroyed
     THEN Deliver([scroll |-> s,
                   direction |-> IF s > scrollData.scroll THEN 1
                                 ELSE IF s < scrollData.scroll THEN -1
                                 ELSE scrollData.direction], thr)
     ELSE /\ delivered' = FALSE
          /\ fired' = <<>>
          /\ controlCalls' = <<>>
          /\ escaped' = FALSE
          /\ UNCHANGED <<mounted, src, scrollData, progress, isActive, instance>>
  /\ op' = "RafTick"
  /\ UNCHANGED <<magVars, pinVars, snapVars, provVars,
                 boardVars, authVars, otpVars>>
  /\ UNCHANGED <<everMounted, cfgStart, cfgEnd, layout, start, end, config>>

\* handleScroll of the fallback, on a native scroll event at window.scrollY = s
NativeScroll(s, thr) ==
  /\ src.listener
  /\ Deliver([scroll |-> s,
              direction |-> IF s > scrollData.scroll THEN 1 ELSE -1], thr)
  /\ op' = "NativeScroll"
  /\ UNCHANGED <<magVars, pinVars, snapVars, provVars,
                 boardVars, authVars, otpVars>>
  /\ UNCHANGED <<everMounted, cfgStart, cfgEnd, layout, start, end, config>>

\* The parent re-renders the component with a new config object whose
\* trigger.start / trigger.end are cs / ce and whose animation part is c;
\* cbNew: config.callbacks is a new object too.  calculateTriggerPoints is re-created, and the memoized
\* start/end recomputed, only when cs or ce differ from the previous ones.
ParentRerender(cs, ce, cbNew, c, thr) ==
  /\ mounted
  /\ config' = c
  /\ cfgStart' = cs
  /\ cfgEnd' = ce
  /\ LET calcNew == cs # cfgStart \/ ce # cfgEnd
         tp == IF calcNew
               THEN calculateTriggerPoints(TRUE, cs, ce, layout)
               ELSE [start |-> start, end |-> end]
     IN /\ start' = tp.start
        /\ end' = tp.end
        /\ ApplyRender(Render(scrollData, tp.start, tp.end, instance, c,
                              FALSE, TRUE, calcNew \/ cbNew, FALSE, thr),
                       mounted, src)
  /\ delivered' = FALSE
  /\ op' = "ParentRerender"
  /\ UNCHANGED <<magVars, pinVars, snapVars, provVars,
                 boardVars, authVars, otpVars>>
  /\ UNCHANGED <<everMounted, layout, scrollData>>

\* The layout changes to l and the window fires 'resize': handleResize
\* calls calculateTriggerPoints(), drops its result, and calls onRefresh.
\* An exception of onRefresh leaves the event listener.
Resize(l, thr) ==
  /\ mounted
  /\ layout' = l
  /\ fired' = <<Call("onRefresh", instance)>>
  /\ controlCalls' = <<>>
  /\ escaped' = ("onRefresh" \in thr)
  /\ delivered' = FALSE
  /\ op' = "Resize"
  /\ UNCHANGED <<magVars, pinVars, snapVars, provVars,
                 boardVars, authVars, otpVars>>
  /\ UNCHANGED <<mounted, everMounted, cfgStart, cfgEnd, scrollData, start,
                 end, progress, isActive, instance, src, config>>

\* ScrollTriggerUtils.refresh(): window.dispatchEvent(new
\* CustomEvent('scrolltrigger:refresh')).  No listener for that event is
\* registered anywhere, so the dispatch reaches no trigger.
RefreshAll ==
  /\ mounted
  /\ fired' = <<>>
  /\ controlCalls' = <<>>
  /\ escaped' = FALSE
  /\ delivered' = FALSE
  /\ op' = "RefreshAll"
  /\ UNCHANGED <<magVars, pinVars, snapVars, provVars,
                 boardVars, authVars, otpVars>>
  /\ UNCHANGED <<mounted, everMounted, cfgStart, cfgEnd, layout, scrollData,
                 start, end, progress, isActive, instance, src, config>>

\* instance.kill(): setInstance(null) and the render it causes
Kill(thr) ==
  /\ mounted
  /\ ~instance.null
  /\ ApplyRender(Render(scrollData, start, end, NoInstance, config,
                        FALSE, FALSE, FALSE, TRUE, thr),
                 mounted, src)
  /\ delivered' = FALSE
  /\ op' = "Kill"
  /\ UNCHANGED <<magVars, pinVars, snapVars, provVars,
                 boardVars, authVars, otpVars>>
  /\ UNCHANGED <<everMounted, cfgStart, cfgEnd, layout, scrollData,
                 start, end, config>>

\* The component unmounts: the resize listener is removed and the useLenis
\* cleanup runs `if (lenis) lenis.destroy()`.
Unmount ==
  /\ mounted
  /\ mounted' = FALSE
  /\ src' = Cleanup(src)
  /\ fired' = <<>>
  /\ controlCalls' = <<>>
  /\ escaped' = FALSE
  /\ delivered' = FALSE
  /\ op' = "Unmount"
  /\ UNCHANGED <<magVars, pinVars, snapVars, provVars,
                 boardVars, authVars, otpVars>>
  /\ UNCHANGED <<everMounted, cfgStart, cfgEnd, layout, scrollData, start,
                 end, progress, isActive, instance, config>>

TrigInit ==
  /\ mounted = FALSE
  /\ everMounted = FALSE
  /\ cfgStart = Undefined
  /\ cfgEnd = Undefined
  /\ layout = [top |-> 0, height |-> 2, win |-> 2]
  /\ scrollData = [scroll |-> 0, direction |-> 1]
  /\ start = 0
  /\ end = 0
  /\ progress = Frac(0, 1)
  /\ isActive = FALSE
  /\ instance = NoInstance
  /\ fired = <<>>
  /\ op = "init"
  /\ src = [phase |-> "none", destroyed |-> FALSE, raf |-> FALSE, listener |-> FALSE]
  /\ delivered = FALSE
  /\ config = DefaultConfig
  /\ controlCalls = <<>>
  /\ escaped = FALSE


\* =========================================================================
\*  MagneticEffect
\* =========================================================================

\* config defaults: strength = 0.3 = StrengthNum / StrengthDen, range = 100
StrengthNum == 3
StrengthDen == 10
range == 100

\* displacements are numerators over this denominator
DispDen == StrengthDen * range

\* pointer positions, as (clientX - centerX, clientY - centerY); every
\* sample has an integral distance from the centre
DeltaSamples ==
  { <<50, 0>>, <<0, -100>>, <<30, 40>>, <<150, 0>>, <<-90, -120>> }

\* Math.sqrt on a perfect square
SqrtOf(dx, dy) ==
  LET n == dx * dx + dy * dy
  IN CHOOSE r \in 0..(Abs(dx) + Abs(dy)) : r * r = n

TransformEuclid(value, other, hovering, beh) ==
  IF ~hovering THEN 0
  ELSE
    LET distance == SqrtOf(value, other)
    IN IF distance > range THEN 0
       ELSE LET effect == value * StrengthNum * (range - distance)
            IN IF beh = "repel" THEN 0 - effect
               ELSE IF beh = "follow" THEN effect * 2
               ELSE effect

\* the transformer of transformX / transformY on the spring value of its
\* own axis (other is the spring value of the other axis, which it does
\* not read); the result is a numerator over DispDen
Transform(value, other, hovering, beh) ==
  IF ~hovering THEN 0
  ELSE
    LET distance == Abs(value)
    IN IF distance > range THEN 0
       ELSE LET effect == value * StrengthNum * (range - distance)
            IN IF beh = "repel" THEN 0 - effect
               ELSE IF beh = "follow" THEN effect * 2
               ELSE effect

\* style.x / style.y of the element
Displacement ==
  <<Transform(x, y, isHovering, behavior), Transform(y, x, isHovering, behavior)>>

\* one frame of useSpring: the value moves three quarters of the way to the
\* source value (rounded away from the current value), and is at rest once
\* it reaches it
SpringStep(v, target) ==
  IF v = target THEN v
  ELSE IF target > v THEN v + ((3 * (target - v) + 3) \div 4)
  ELSE v - ((3 * (v - target) + 3) \div 4)

\* handleMouseMove(event), d the pointer delta from the element centre
handleMouseMove(d) ==
  LET distance == SqrtOf(d[1], d[2])
  IN /\ near' = (distance <= range)
     /\ IF distance <= range
        THEN /\ isHovering' = TRUE
             /\ hoverLog' = IF ~isHovering THEN <<TRUE>> ELSE <<>>
             /\ mouseX' = d[1]
             /\ mouseY' = d[2]
        ELSE IF isHovering
        THEN /\ isHovering' = FALSE
             /\ hoverLog' = <<FALSE>>
             /\ mouseX' = 0
             /\ mouseY' = 0
        ELSE /\ hoverLog' = <<>>
             /\ UNCHANGED <<isHovering, mouseX, mouseY>>
     /\ mOp' = "MouseMove"
     /\ UNCHANGED <<trigVars, pinVars, snapVars, provVars,
                    boardVars, authVars, otpVars>>
     /\ UNCHANGED <<x, y, behavior>>

\* handleTouchMove(event), d the delta of touches[0] from the element centre
handleTouchMove(d) ==
  LET distance == SqrtOf(d[1], d[2])
  IN /\ near' = (distance <= range)
     /\ IF distance <= range
        THEN /\ isHovering' = TRUE
             /\ hoverLog' = IF ~isHovering THEN <<TRUE>> ELSE <<>>
             /\ mouseX' = d[1]
             /\ mouseY' = d[2]
        ELSE /\ hoverLog' = <<>>
             /\ UNCHANGED <<isHovering, mouseX, mouseY>>
     /\ mOp' = "TouchMove"
     /\ UNCHANGED <<trigVars, pinVars, snapVars, provVars,
                    boardVars, authVars, otpVars>>
     /\ UNCHANGED <<x, y, behavior>>

handleMouseLeave ==
  /\ isHovering' = FALSE
  /\ hoverLog' = <<FALSE>>
  /\ mouseX' = 0
  /\ mouseY' = 0
  /\ mOp' = "MouseLeave"
  /\ UNCHANGED <<trigVars, pinVars, snapVars, provVars,
                 boardVars, authVars, otpVars>>
  /\ UNCHANGED <<x, y, behavior, near>>

handleTouchEnd ==
  /\ isHovering' = FALSE
  /\ hoverLog' = <<FALSE>>
  /\ mouseX' = 0
  /\ mouseY' = 0
  /\ mOp' = "TouchEnd"
  /\ UNCHANGED <<trigVars, pinVars, snapVars, provVars,
                 boardVars, authVars, otpVars>>
  /\ UNCHANGED <<x, y, behavior, near>>

\* onKeyDown with Enter or space: setIsHovering(!isHovering)
onKeyDown ==
  /\ isHovering' = ~isHovering
  /\ hoverLog' = <<>>
  /\ mOp' = "KeyDown"
  /\ UNCHANGED <<trigVars, pinVars, snapVars, provVars,
                 boardVars, authVars, otpVars>>
  /\ UNCHANGED <<mouseX, mouseY, x, y, behavior, near>>

\* the parent re-renders the component with config.behavior = b
setBehavior(b) ==
  /\ behavior' = b
  /\ hoverLog' = <<>>
  /\ mOp' = "setBehavior"
  /\ UNCHANGED <<trigVars, pinVars, snapVars, provVars,
                 boardVars, authVars, otpVars>>
  /\ UNCHANGED <<isHovering, mouseX, mouseY, x, y, near>>

\* an animation frame while a spring is not at rest
SpringFrame ==
  /\ x # mouseX \/ y # mouseY
  /\ x' = SpringStep(x, mouseX)
  /\ y' = SpringStep(y, mouseY)
  /\ hoverLog' = <<>>
  /\ mOp' = "SpringFrame"
  /\ UNCHANGED <<trigVars, pinVars, snapVars, provVars,
                 boardVars, authVars, otpVars>>
  /\ UNCHANGED <<isHovering, mouseX, mouseY, behavior, near>>

MagInit ==
  /\ isHovering = FALSE
  /\ mouseX = 0
  /\ mouseY = 0
  /\ x = 0
  /\ y = 0
  /\ behavior = "attract"
  /\ near = FALSE
  /\ hoverLog = <<>>
  /\ mOp = "init"


\* =========================================================================
\*  PinScrollTrigger
\* =========================================================================
Max(a, b) == IF a >= b THEN a ELSE b

\* the useMemo of start/end, dependencies []: computed by the first render
\* only; hasContainer is containerRef.current !== null at that time
PinWindow(hasContainer, l) ==
  IF ~hasContainer THEN [start |-> 0, end |-> 0]
  ELSE [start |-> l.top, end |-> l.top + l.height]

ShouldPin(scroll, st, en) == scroll >= st /\ scroll <= en

\* className of the content element
ContentPosition == IF isPinned THEN "fixed" ELSE "relative"

\* style.transform of the content element
ContentTransform ==
  IF isPinned
  THEN [kind |-> "translateY", px |-> Max(0, pinScroll - pinStart)]
  ELSE [kind |-> "none", px |-> 0]

\* style.height of the container (the placeholder)
PlaceholderHeight ==
  IF pinSpacing
  THEN [kind |-> "px", px |-> pinEnd - pinStart + pinLayout.win]
  ELSE [kind |-> "auto", px |-> 0]

\* first render (containerRef.current = null, scrollData.scroll = 0), the
\* effect setIsPinned(shouldPin) and the render it causes
PinMount(l, spacing) ==
  /\ pinSrc.phase = "none"
  /\ pinMounted' = TRUE
  /\ pinLayout' = l
  /\ pinSpacing' = spacing
  /\ LET w == PinWindow(FALSE, l)
     IN /\ pinStart' = w.start
        /\ pinEnd' = w.end
        /\ isPinned' = ShouldPin(pinScroll, w.start, w.end)
  /\ pinSrc' = [pinSrc EXCEPT !.phase = "importing"]
  /\ pinOp' = "PinMount"
  /\ UNCHANGED pinScroll
  /\ UNCHANGED <<trigVars, magVars, snapVars, provVars,
                 boardVars, authVars, otpVars>>

PinImportResolved ==
  /\ pinSrc.phase = "importing"
  /\ pinSrc' = [pinSrc EXCEPT !.phase = "enhanced", !.raf = TRUE]
  /\ pinOp' = "PinImportResolved"
  /\ UNCHANGED <<pinMounted, pinLayout, pinSpacing, pinScroll, pinStart,
                 pinEnd, isPinned>>
  /\ UNCHANGED <<trigVars, magVars, snapVars, provVars,
                 boardVars, authVars, otpVars>>

PinImportFailed ==
  /\ pinSrc.phase = "importing"
  /\ pinSrc' = [pinSrc EXCEPT !.phase = "fallback", !.listener = TRUE]
  /\ pinOp' = "PinImportFailed"
  /\ UNCHANGED <<pinMounted, pinLayout, pinSpacing, pinScroll, pinStart,
                 pinEnd, isPinned>>
  /\ UNCHANGED <<trigVars, magVars, snapVars, provVars,
                 boardVars, authVars, otpVars>>

\* setScrollData with scroll = s: render, setIsPinned(shouldPin), render
PinDeliver(s) ==
  IF pinMounted
  THEN /\ pinScroll' = s
       /\ isPinned' = ShouldPin(s, pinStart, pinEnd)
  ELSE UNCHANGED <<pinScroll, isPinned>>

\* a frame of the component's loop; a live engine may emit 'scroll'
PinRafTick(s, emits) ==
  /\ pinSrc.raf
  /\ IF emits /\ ~pinSrc.destroyed
     THEN PinDeliver(s)
     ELSE UNCHANGED <<pinScroll, isPinned>>
  /\ pinOp' = "PinRafTick"
  /\ UNCHANGED <<pinMounted, pinLayout, pinSpacing, pinStart, pinEnd, pinSrc>>
  /\ UNCHANGED <<trigVars, magVars, snapVars, provVars,
                 boardVars, authVars, otpVars>>

\* handleScroll of the fallback
PinNativeScroll(s) ==
  /\ pinSrc.listener
  /\ PinDeliver(s)
  /\ pinOp' = "PinNativeScroll"
  /\ UNCHANGED <<pinMounted, pinLayout, pinSpacing, pinStart, pinEnd, pinSrc>>
  /\ UNCHANGED <<trigVars, magVars, snapVars, provVars,
                 boardVars, authVars, otpVars>>

\* the parent re-renders the component with config.pinSpacing = spacing;
\* the memo of start/end has no dependencies and is not recomputed
PinRerender(spacing) ==
  /\ pinMounted
  /\ pinSpacing' = spacing
  /\ pinOp' = "PinRerender"
  /\ UNCHANGED <<pinMounted, pinLayout, pinScroll, pinStart, pinEnd,
                 isPinned, pinSrc>>
  /\ UNCHANGED <<trigVars, magVars, snapVars, provVars,
                 boardVars, authVars, otpVars>>

PinUnmount ==
  /\ pinMounted
  /\ pinMounted' = FALSE
  /\ pinSrc' = [pinSrc EXCEPT !.destroyed = (pinSrc.phase = "enhanced")]
  /\ pinOp' = "PinUnmount"
  /\ UNCHANGED <<pinLayout, pinSpacing, pinScroll, pinStart, pinEnd, isPinned>>
  /\ UNCHANGED <<trigVars, magVars, snapVars, provVars,
                 boardVars, authVars, otpVars>>

PinInit ==
  /\ pinMounted = FALSE
  /\ pinLayout = [top |-> 0, height |-> 2, win |-> 2]
  /\ pinSpacing = TRUE
  /\ pinScroll = 0
  /\ pinStart = 0
  /\ pinEnd = 0
  /\ isPinned = FALSE
  /\ pinSrc = [phase |-> "none", destroyed |-> FALSE, raf |-> FALSE, listener |-> FALSE]
  /\ pinOp = "init"


\* =========================================================================
\*  SnapScrollTrigger
\* =========================================================================

\* snapPoints lists, in hundredths: ascending, unordered, with a repeated
\* point, empty
SnapLists == { <<0, 50, 100>>, <<50, 100, 0>>, <<25, 25, 75>>, <<>> }

Progresses == 0..MaxProgress

SnapStepNonStrict(points, p, prev, index) ==
  IF Abs(points[index + 1] - p) <= Abs(points[prev + 1] - p) THEN index ELSE prev

\* the reducer: (prev, curr, index) => |curr - p| < |snapPoints[prev] - p| ? index : prev
SnapStep(points, p, prev, index) ==
  IF Abs(points[index + 1] - p) < Abs(points[prev + 1] - p) THEN index ELSE prev

\* snapPoints.reduce(reducer, 0), from the element at index on
RECURSIVE ReduceSnap(_, _, _, _)
ReduceSnap(points, p, prev, index) ==
  IF index >= Len(points) THEN prev
  ELSE ReduceSnap(points, p, SnapStep(points, p, prev, index), index + 1)

ClosestSnap(points, p) == ReduceSnap(points, p, 0, 0)

\* the animate target y, in percent: `-${activeSnap * 100}%`
SnapY == 0 - (activeSnap * 100)

\* first render (activeSnap = 0, scrollData.progress = 0) and its effect
SnapMount(points) ==
  /\ snapSrc.phase = "none"
  /\ snapMounted' = TRUE
  /\ snapPoints' = points
  /\ activeSnap' = ClosestSnap(points, snapProgress)
  /\ snapSrc' = [snapSrc EXCEPT !.phase = "importing"]
  /\ snapOp' = "SnapMount"
  /\ UNCHANGED snapProgress
  /\ UNCHANGED <<trigVars, magVars, pinVars, provVars,
                 boardVars, authVars, otpVars>>

SnapImportResolved ==
  /\ snapSrc.phase = "importing"
  /\ snapSrc' = [snapSrc EXCEPT !.phase = "enhanced", !.raf = TRUE]
  /\ snapOp' = "SnapImportResolved"
  /\ UNCHANGED <<snapMounted, snapPoints, snapProgress, activeSnap>>
  /\ UNCHANGED <<trigVars, magVars, pinVars, provVars,
                 boardVars, authVars, otpVars>>

SnapImportFailed ==
  /\ snapSrc.phase = "importing"
  /\ snapSrc' = [snapSrc EXCEPT !.phase = "fallback", !.listener = TRUE]
  /\ snapOp' = "SnapImportFailed"
  /\ UNCHANGED <<snapMounted, snapPoints, snapProgress, activeSnap>>
  /\ UNCHANGED <<trigVars, magVars, pinVars, provVars,
                 boardVars, authVars, otpVars>>

\* setScrollData with progress = p: render, effect, setActiveSnap, render
SnapDeliver(p) ==
  IF snapMounted
  THEN /\ snapProgress' = p
       /\ activeSnap' = IF p # snapProgress
                        THEN ClosestSnap(snapPoints, p)
                        ELSE activeSnap
  ELSE UNCHANGED <<snapProgress, activeSnap>>

SnapRafTick(p, emits) ==
  /\ snapSrc.raf
  /\ IF emits /\ ~snapSrc.destroyed
     THEN SnapDeliver(p)
     ELSE UNCHANGED <<snapProgress, activeSnap>>
  /\ snapOp' = "SnapRafTick"
  /\ UNCHANGED <<snapMounted, snapPoints, snapSrc>>
  /\ UNCHANGED <<trigVars, magVars, pinVars, provVars,
                 boardVars, authVars, otpVars>>

SnapNativeScroll(p) ==
  /\ snapSrc.listener
  /\ SnapDeliver(p)
  /\ snapOp' = "SnapNativeScroll"
  /\ UNCHANGED <<snapMounted, snapPoints, snapSrc>>
  /\ UNCHANGED <<trigVars, magVars, pinVars, provVars,
                 boardVars, authVars, otpVars>>

\* the parent re-renders the component with a new snapPoints array
SnapRerender(points) ==
  /\ snapMounted
  /\ snapPoints' = points
  /\ activeSnap' = ClosestSnap(points, snapProgress)
  /\ snapOp' = "SnapRerender"
  /\ UNCHANGED <<snapMounted, snapProgress, snapSrc>>
  /\ UNCHANGED <<trigVars, magVars, pinVars, provVars,
                 boardVars, authVars, otpVars>>

SnapUnmount ==
  /\ snapMounted
  /\ snapMounted' = FALSE
  /\ snapSrc' = [snapSrc EXCEPT !.destroyed = (snapSrc.phase = "enhanced")]
  /\ snapOp' = "SnapUnmount"
  /\ UNCHANGED <<snapPoints, snapProgress, activeSnap>>
  /\ UNCHANGED <<trigVars, magVars, pinVars, provVars,
                 boardVars, authVars, otpVars>>

SnapInit ==
  /\ snapMounted = FALSE
  /\ snapPoints = <<>>
  /\ snapProgress = 0
  /\ activeSnap = 0
  /\ snapSrc = [phase |-> "none", destroyed |-> FALSE, raf |-> FALSE, listener |-> FALSE]
  /\ snapOp = "init"


\* =========================================================================
\*  SmoothScrollProvider
\* =========================================================================
Events == {"scroll", "custom"}

\* consumer callbacks; cbThrows throws whenever it is called
Callbacks == {"cbOk", "cbThrows"}

Throws(cb) == cb = "cbThrows"

EngineCall(fn, event, cb) == [fn |-> fn, event |-> event, cb |-> cb]

\* Set.add keeps the insertion order and adds a callback once
SetAdd(seq, cb) ==
  IF \E i \in 1..Len(seq) : seq[i] = cb THEN seq ELSE Append(seq, cb)

SetDelete(seq, cb) == SelectSeq(seq, LAMBDA c : c # cb)

\* the value isInitialized takes in the effect on [lenis, isMounted, enabled]
InitializedWhen(l, m, e) == l /\ m /\ e

\* the provider mounts: setIsMounted(true), and the initialization effect
\* of the render this causes
ProvMount ==
  /\ ~provMounted
  /\ provOp = "init"
  /\ provMounted' = TRUE
  /\ isInitialized' = InitializedWhen(lenis, TRUE, enabled)
  /\ engineCalls' = <<>>
  /\ invoked' = <<>>
  /\ warned' = <<>>
  /\ provOp' = "ProvMount"
  /\ UNCHANGED <<lenis, enabled, destroyCalled, eventCallbacks>>
  /\ emitted' = ""
  /\ UNCHANGED subscribed
  /\ UNCHANGED <<trigVars, magVars, pinVars, snapVars,
                 boardVars, authVars, otpVars>>

\* useLenis starts to return an engine instance: the cleanup of the effect
\* on [lenis] runs for the previous value (undefined: nothing to destroy)
\* and clears the registry; the initialization effect runs again
LenisArrives ==
  /\ provMounted
  /\ ~lenis
  /\ lenis' = TRUE
  /\ eventCallbacks' = [e \in Events |-> <<>>]
  /\ isInitialized' = InitializedWhen(TRUE, provMounted, enabled)
  /\ engineCalls' = <<>>
  /\ invoked' = <<>>
  /\ warned' = <<>>
  /\ provOp' = "LenisArrives"
  /\ UNCHANGED <<provMounted, enabled, destroyCalled>>
  /\ emitted' = ""
  /\ UNCHANGED subscribed
  /\ UNCHANGED <<trigVars, magVars, pinVars, snapVars,
                 boardVars, authVars, otpVars>>

\* the parent re-renders the provider with enabled = b
SetEnabled(b) ==
  /\ provMounted
  /\ b # enabled
  /\ enabled' = b
  /\ isInitialized' = InitializedWhen(lenis, provMounted, b)
  /\ engineCalls' = <<>>
  /\ invoked' = <<>>
  /\ warned' = <<>>
  /\ provOp' = "SetEnabled"
  /\ UNCHANGED <<provMounted, lenis, destroyCalled, eventCallbacks>>
  /\ emitted' = ""
  /\ UNCHANGED subscribed
  /\ UNCHANGED <<trigVars, magVars, pinVars, snapVars,
                 boardVars, authVars, otpVars>>

\* scrollTo(target, options), start(), stop(), resize() of the context value
Forward(fn) ==
  /\ provMounted
  /\ engineCalls' = IF ~lenis \/ ~isInitialized THEN <<>>
                    ELSE <<EngineCall(fn, "", "")>>
  /\ invoked' = <<>>
  /\ warned' = <<>>
  /\ provOp' = fn
  /\ UNCHANGED <<provMounted, lenis, enabled, isInitialized, destroyCalled,
                 eventCallbacks>>
  /\ emitted' = ""
  /\ UNCHANGED subscribed
  /\ UNCHANGED <<trigVars, magVars, pinVars, snapVars,
                 boardVars, authVars, otpVars>>

destroy ==
  /\ provMounted
  /\ IF ~lenis
     THEN /\ engineCalls' = <<>>
          /\ UNCHANGED <<isInitialized, destroyCalled>>
     ELSE /\ engineCalls' = <<EngineCall("destroy", "", "")>>
          /\ isInitialized' = FALSE
          /\ destroyCalled' = TRUE
  /\ invoked' = <<>>
  /\ warned' = <<>>
  /\ provOp' = "destroy"
  /\ UNCHANGED <<provMounted, lenis, enabled, eventCallbacks>>
  /\ emitted' = ""
  /\ UNCHANGED subscribed
  /\ UNCHANGED <<trigVars, magVars, pinVars, snapVars,
                 boardVars, authVars, otpVars>>

on(event, cb) ==
  /\ provMounted
  /\ eventCallbacks' =
       [eventCallbacks EXCEPT ![event] = SetAdd(eventCallbacks[event], cb)]
  /\ engineCalls' = IF lenis /\ isInitialized
                    THEN <<EngineCall("on", event, cb)>> ELSE <<>>
  /\ invoked' = <<>>
  /\ warned' = <<>>
  /\ provOp' = "on"
  /\ UNCHANGED <<provMounted, lenis, enabled, isInitialized, destroyCalled>>
  /\ emitted' = ""
  /\ subscribed' = [subscribed EXCEPT ![event] = @ \cup {cb}]
  /\ UNCHANGED <<trigVars, magVars, pinVars, snapVars,
                 boardVars, authVars, otpVars>>

off(event, cb) ==
  /\ provMounted
  /\ eventCallbacks' =
       [eventCallbacks EXCEPT ![event] = SetDelete(eventCallbacks[event], cb)]
  /\ engineCalls' = IF lenis /\ isInitialized
                    THEN <<EngineCall("off", event, cb)>> ELSE <<>>
  /\ invoked' = <<>>
  /\ warned' = <<>>
  /\ provOp' = "off"
  /\ UNCHANGED <<provMounted, lenis, enabled, isInitialized, destroyCalled>>
  /\ emitted' = ""
  /\ subscribed' = [subscribed EXCEPT ![event] = @ \ {cb}]
  /\ UNCHANGED <<trigVars, magVars, pinVars, snapVars,
                 boardVars, authVars, otpVars>>

\* emit(event): every registry callback of the event inside its own
\* try/catch, then lenis.emit
emit(event) ==
  /\ provMounted
  /\ invoked' = eventCallbacks[event]
  /\ warned' = SelectSeq(eventCallbacks[event], Throws)
  /\ engineCalls' = IF lenis /\ isInitialized
                    THEN <<EngineCall("emit", event, "")>> ELSE <<>>
  /\ provOp' = "emit"
  /\ UNCHANGED <<provMounted, lenis, enabled, isInitialized, destroyCalled,
                 eventCallbacks>>
  /\ emitted' = event
  /\ UNCHANGED subscribed
  /\ UNCHANGED <<trigVars, magVars, pinVars, snapVars,
                 boardVars, authVars, otpVars>>

\* the provider unmounts: cleanup of the effect on [lenis]
ProvUnmount ==
  /\ provMounted
  /\ provMounted' = FALSE
  /\ engineCalls' = IF lenis THEN <<EngineCall("destroy", "", "")>> ELSE <<>>
  /\ eventCallbacks' = [e \in Events |-> <<>>]
  /\ invoked' = <<>>
  /\ warned' = <<>>
  /\ provOp' = "ProvUnmount"
  /\ UNCHANGED <<lenis, enabled, isInitialized, destroyCalled>>
  /\ emitted' = ""
  /\ subscribed' = [e \in Events |-> {}]
  /\ UNCHANGED <<trigVars, magVars, pinVars, snapVars,
                 boardVars, authVars, otpVars>>

ProvInit ==
  /\ provMounted = FALSE
  /\ lenis = FALSE
  /\ enabled = TRUE
  /\ isInitialized = FALSE
  /\ destroyCalled = FALSE
  /\ eventCallbacks = [e \in Events |-> <<>>]
  /\ engineCalls = <<>>
  /\ invoked = <<>>
  /\ warned = <<>>
  /\ emitted = ""
  /\ subscribed = [e \in Events |-> {}]
  /\ provOp = "init"


\* =========================================================================
\*  TaskBoard
\* =========================================================================
ColumnIds == {"todo", "inprogress", "completed"}

\* initialTasks: id, priority and status
initialTasks ==
  << [id |-> "1", priority |-> "high", status |-> "todo"],
     [id |-> "2", priority |-> "high", status |-> "inprogress"],
     [id |-> "3", priority |-> "medium", status |-> "completed"],
     [id |-> "4", priority |-> "medium", status |-> "todo"],
     [id |-> "5", priority |-> "low", status |-> "inprogress"] >>

NoDrag == [active |-> FALSE, droppableId |-> "", index |-> 0, draggableId |-> ""]

NoDrop ==
  [hasDestination |-> FALSE,
   source |-> [droppableId |-> "", index |-> 0],
   destination |-> [droppableId |-> "", index |-> 0],
   draggableId |-> ""]

\* filteredColumns: the tasks of a column that pass the priority filter
\* (search term empty, assignee filter "all")
FilteredTasks(tasks, fp) ==
  SelectSeq(tasks, LAMBDA t : fp = "all" \/ t.priority = fp)

\* newTasks.splice(index, 1) with a 0-based index
SpliceOut(tasks, index) ==
  [i \in 1..(Len(tasks) - (IF index < Len(tasks) THEN 1 ELSE 0)) |->
     IF i <= index THEN tasks[i] ELSE tasks[i + 1]]

\* newTasks.splice(index, 0, task): an index past the end appends
SpliceIn(tasks, index, task) ==
  LET at == IF index > Len(tasks) THEN Len(tasks) ELSE index
  IN [i \in 1..(Len(tasks) + 1) |->
        IF i <= at THEN tasks[i]
        ELSE IF i = at + 1 THEN task ELSE tasks[i - 1]]

\* columns.map(...) of handleDragEnd: the column that is the source returns
\* from the first branch and never reaches the destination branch
MapColumn(colId, tasks, source, destination, updatedTask) ==
  IF colId = source.droppableId
  THEN SpliceOut(tasks, source.index)
  ELSE IF colId = destination.droppableId
       THEN SpliceIn(tasks, destination.index, updatedTask)
       ELSE tasks

\* the mount effect: every column gets the initial tasks of its status
BoardMount ==
  /\ ~boardMounted
  /\ boardOp = "init"
  /\ boardMounted' = TRUE
  /\ columns' = [c \in ColumnIds |->
                   SelectSeq(initialTasks, LAMBDA t : t.status = c)]
  /\ dropResult' = NoDrop
  /\ boardOp' = "BoardMount"
  /\ UNCHANGED <<isLoading, filterPriority, draggedTask, drag>>
  /\ UNCHANGED <<trigVars, magVars, pinVars, snapVars,
                 provVars, authVars, otpVars>>

\* setTimeout(() => setIsLoading(false), 1000)
LoadingDone ==
  /\ boardMounted
  /\ isLoading
  /\ isLoading' = FALSE
  /\ dropResult' = NoDrop
  /\ boardOp' = "LoadingDone"
  /\ UNCHANGED <<boardMounted, columns, filterPriority, draggedTask, drag>>
  /\ UNCHANGED <<trigVars, magVars, pinVars, snapVars,
                 provVars, authVars, otpVars>>

\* the priority Select: setFilterPriority(fp)
setFilterPriority(fp) ==
  /\ boardMounted
  /\ ~isLoading
  /\ ~drag.active
  /\ fp # filterPriority
  /\ filterPriority' = fp
  /\ dropResult' = NoDrop
  /\ boardOp' = "setFilterPriority"
  /\ UNCHANGED <<boardMounted, isLoading, columns, draggedTask, drag>>
  /\ UNCHANGED <<trigVars, magVars, pinVars, snapVars,
                 provVars, authVars, otpVars>>

\* the user lifts the card rendered at `index` of column colId: the library
\* calls handleDragStart with the card's draggableId
handleDragStart(colId, index) ==
  /\ boardMounted
  /\ ~isLoading
  /\ ~drag.active
  /\ index < Len(FilteredTasks(columns[colId], filterPriority))
  /\ LET id == FilteredTasks(columns[colId], filterPriority)[index + 1].id
     IN /\ drag' = [active |-> TRUE, droppableId |-> colId, index |-> index,
                    draggableId |-> id]
        /\ draggedTask' = id
  /\ dropResult' = NoDrop
  /\ boardOp' = "handleDragStart"
  /\ UNCHANGED <<boardMounted, isLoading, columns, filterPriority>>
  /\ UNCHANGED <<trigVars, magVars, pinVars, snapVars,
                 provVars, authVars, otpVars>>

\* the user drops the card: outside every column (no destination) or at
\* `index` of the rendered list of column colId
handleDragEnd(hasDestination, colId, index) ==
  /\ boardMounted
  /\ drag.active
  /\ LET source == [droppableId |-> drag.droppableId, index |-> drag.index]
         destination == [droppableId |-> colId, index |-> index]
         shown == Len(FilteredTasks(columns[colId], filterPriority))
         sourceColumn == columns[source.droppableId]
         updatedTask == [sourceColumn[source.index + 1] EXCEPT !.status = colId]
     IN /\ hasDestination =>
             index <= (IF colId = source.droppableId THEN shown - 1 ELSE shown)
        /\ ~hasDestination => (colId = "todo" /\ index = 0)
        /\ dropResult' = [hasDestination |-> hasDestination,
                          source |-> source,
                          destination |-> IF hasDestination THEN destination
                                          ELSE NoDrop.destination,
                          draggableId |-> drag.draggableId]
        /\ columns' =
             IF ~hasDestination \/ source = destination
             THEN columns
             ELSE [c \in ColumnIds |->
                     MapColumn(c, columns[c], source, destination, updatedTask)]
  /\ draggedTask' = ""
  /\ drag' = NoDrag
  /\ boardOp' = "handleDragEnd"
  /\ UNCHANGED <<boardMounted, isLoading, filterPriority>>
  /\ UNCHANGED <<trigVars, magVars, pinVars, snapVars,
                 provVars, authVars, otpVars>>

BoardInit ==
  /\ boardMounted = FALSE
  /\ isLoading = TRUE
  /\ columns = [c \in ColumnIds |-> <<>>]
  /\ filterPriority = "all"
  /\ draggedTask = ""
  /\ drag = NoDrag
  /\ dropResult = NoDrop
  /\ boardOp = "init"


\* =========================================================================
\*  AuthManager, authAPI and storage
\* =========================================================================
NoUser == [id |-> "", email |-> ""]

NoStorage == [user |-> NoUser, token |-> "", expired |-> FALSE]

NoRequest == [kind |-> "none", arg |-> ""]

\* authAPI.login
ApiLogin(email) ==
  IF email = "test@error.com"
  THEN [ok |-> FALSE, user |-> NoUser, token |-> "", requiresOTP |-> FALSE,
        message |-> "Invalid credentials"]
  ELSE [ok |-> TRUE, user |-> [id |-> "1", email |-> email],
        token |-> "mock-jwt-token", requiresOTP |-> (email = "test@otp.com"),
        message |-> ""]

\* authAPI.signup
ApiSignup(email) ==
  IF email = "test@exists.com"
  THEN [ok |-> FALSE, user |-> NoUser, token |-> "", requiresOTP |-> FALSE,
        message |-> "User already exists"]
  ELSE [ok |-> TRUE, user |-> [id |-> "2", email |-> email],
        token |-> "mock-jwt-token", requiresOTP |-> TRUE, message |-> ""]

\* authAPI.verifyOTP
ApiVerifyOTP(code) ==
  IF code = "000000" THEN [ok |-> FALSE, message |-> "Invalid OTP code"]
  ELSE [ok |-> TRUE, message |-> ""]

\* storage.setAuthData
setAuthData(user, token) == [user |-> user, token |-> token, expired |-> FALSE]

\* storage.getAuthData: null (NoStorage) if a key is missing or the
\* timestamp is older than 24 hours
getAuthData(st) ==
  IF st.user = NoUser \/ st.token = "" \/ st.expired THEN NoStorage ELSE st

\* what a handler's continuation decides: the next authState, the storage,
\* the pending user and token, and the onAuthenticated calls
Outcome(as, st, pu, pt, calls) ==
  [authState |-> as, stored |-> st, pendingUser |-> pu, pendingToken |-> pt,
   calls |-> calls]

\* handleLogin after `await authAPI.login` returned `result`
AfterLoginIgnoringOTP(result, st, pu, pt) ==
  Outcome("authenticated", setAuthData(result.user, result.token), pu, pt,
          <<result.user>>)

AfterLogin(result, st, pu, pt) ==
  IF result.requiresOTP
  THEN Outcome("otp-verification", st, result.user, result.token, <<>>)
  ELSE Outcome("authenticated", setAuthData(result.user, result.token), pu, pt,
               <<result.user>>)

\* the state updates of a settled handler; the page unmounts AuthManager
\* once onAuthenticated has set isAuthenticated.  A state update on the
\* unmounted component is dropped, a storage write is not.
ApplyOutcome(o) ==
  /\ stored' = o.stored
  /\ authCalls' = o.calls
  /\ authState' = IF authMounted THEN o.authState ELSE authState
  /\ pendingUser' = IF authMounted THEN o.pendingUser ELSE pendingUser
  /\ pendingToken' = IF authMounted THEN o.pendingToken ELSE pendingToken
  /\ authMounted' = (authMounted /\ o.calls = <<>>)

\* the effect on [initialAuthState, onAuthenticated] with
\* initialAuthState = "login"; getAuthData clears expired data
AuthEffect ==
  LET authData == getAuthData(stored)
  IN /\ stored' = IF stored.expired THEN NoStorage ELSE stored
     /\ IF authData # NoStorage
        THEN /\ authState' = "authenticated"
             /\ authCalls' = <<authData.user>>
             /\ authMounted' = FALSE
        ELSE /\ authState' = "initial"
             /\ authCalls' = <<>>
             /\ authMounted' = TRUE

\* the page renders AuthManager: fresh state, then the mount effect
AuthMount ==
  /\ ~authMounted
  /\ request.kind = "none"
  /\ AuthEffect
  /\ loading' = FALSE
  /\ pendingUser' = NoUser
  /\ pendingToken' = ""
  /\ authError' = ""
  /\ authOp' = "AuthMount"
  /\ UNCHANGED request
  /\ UNCHANGED <<trigVars, magVars, pinVars, snapVars,
                 provVars, boardVars, otpVars>>

\* the page re-renders and passes a new handleAuthentication function: the
\* effect runs again; the effect on [authState] clears the error
AuthParentRerender ==
  /\ authMounted
  /\ AuthEffect
  /\ authError' = IF authState' # authState THEN "" ELSE authError
  /\ authOp' = "AuthParentRerender"
  /\ UNCHANGED <<loading, pendingUser, pendingToken, request>>
  /\ UNCHANGED <<trigVars, magVars, pinVars, snapVars,
                 provVars, boardVars, otpVars>>

\* AuthScreen: onSelectLogin / onSelectSignup
Select(screen) ==
  /\ authMounted
  /\ authState = "initial"
  /\ authState' = screen
  /\ authError' = ""
  /\ authCalls' = <<>>
  /\ authOp' = "Select"
  /\ UNCHANGED <<authMounted, loading, pendingUser, pendingToken, stored, request>>
  /\ UNCHANGED <<trigVars, magVars, pinVars, snapVars,
                 provVars, boardVars, otpVars>>

\* a handler up to its await: setLoading(true), setError(null), the call
StartRequest(kind, arg) ==
  /\ loading' = TRUE
  /\ authError' = ""
  /\ request' = [kind |-> kind, arg |-> arg]
  /\ authCalls' = <<>>
  /\ UNCHANGED <<authMounted, authState, pendingUser, pendingToken, stored>>
  /\ UNCHANGED <<trigVars, magVars, pinVars, snapVars,
                 provVars, boardVars, otpVars>>

\* LoginForm submit (disabled while loading)
handleLogin(email) ==
  /\ authMounted
  /\ authState = "login"
  /\ ~loading
  /\ StartRequest("login", email)
  /\ authOp' = "handleLogin"

\* SignupForm submit (disabled while loading)
handleSignup(email) ==
  /\ authMounted
  /\ authState = "signup"
  /\ ~loading
  /\ StartRequest("signup", email)
  /\ authOp' = "handleSignup"

\* OTPVerification submit (disabled while loading):
\* `if (!pendingUser || !pendingToken) return`
handleOTPVerify(code) ==
  /\ authMounted
  /\ authState = "otp-verification"
  /\ ~loading
  /\ authOp' = "handleOTPVerify"
  /\ IF pendingUser = NoUser \/ pendingToken = ""
     THEN /\ authCalls' = <<>>
          /\ UNCHANGED <<authMounted, authState, loading, pendingUser,
                         pendingToken, authError, stored, request>>
          /\ UNCHANGED <<trigVars, magVars, pinVars, snapVars,
                         provVars, boardVars, otpVars>>
     ELSE StartRequest("verify", code)

\* a handler from its await on: try / catch / finally
Settle(ok, message, o) ==
  /\ IF ok
     THEN /\ ApplyOutcome(o)
          /\ authError' = IF authState' # authState THEN "" ELSE authError
     ELSE /\ authError' = IF authMounted THEN message ELSE authError
          /\ authCalls' = <<>>
          /\ UNCHANGED <<authMounted, authState, pendingUser, pendingToken, stored>>
  /\ loading' = IF authMounted THEN FALSE ELSE loading
  /\ request' = NoRequest
  /\ UNCHANGED <<trigVars, magVars, pinVars, snapVars,
                 provVars, boardVars, otpVars>>

LoginSettled ==
  /\ request.kind = "login"
  /\ LET result == ApiLogin(request.arg)
     IN Settle(result.ok, result.message,
               AfterLogin(result, stored, pendingUser, pendingToken))
  /\ authOp' = "LoginSettled"

SignupSettled ==
  /\ request.kind = "signup"
  /\ LET result == ApiSignup(request.arg)
     IN Settle(result.ok, result.message,
               Outcome("otp-verification", stored, result.user, result.token, <<>>))
  /\ authOp' = "SignupSettled"

\* pendingUser and pendingToken are the ones the handler closed over; they
\* cannot change while the call is in flight (every form is disabled)
VerifySettled ==
  /\ request.kind = "verify"
  /\ LET result == ApiVerifyOTP(request.arg)
     IN Settle(result.ok, result.message,
               Outcome("authenticated", setAuthData(pendingUser, pendingToken),
                       pendingUser, pendingToken, <<pendingUser>>))
  /\ authOp' = "VerifySettled"

\* the back button (disabled while loading)
handleBack ==
  /\ authMounted
  /\ ~loading
  /\ authState \in {"login", "signup", "otp-verification"}
  /\ authState' = IF authState = "otp-verification"
                  THEN (IF pendingUser.id = "2" THEN "signup" ELSE "login")
                  ELSE "initial"
  /\ authError' = ""
  /\ authCalls' = <<>>
  /\ authOp' = "handleBack"
  /\ UNCHANGED <<authMounted, loading, pendingUser, pendingToken, stored, request>>
  /\ UNCHANGED <<trigVars, magVars, pinVars, snapVars,
                 provVars, boardVars, otpVars>>

\* 24 hours pass since auth_timestamp was written
DayPasses ==
  /\ stored # NoStorage
  /\ ~stored.expired
  /\ stored' = [stored EXCEPT !.expired = TRUE]
  /\ authCalls' = <<>>
  /\ authOp' = "DayPasses"
  /\ UNCHANGED <<authMounted, authState, loading, pendingUser, pendingToken,
                 authError, request>>
  /\ UNCHANGED <<trigVars, magVars, pinVars, snapVars,
                 provVars, boardVars, otpVars>>

AuthInit ==
  /\ authMounted = FALSE
  /\ authState = "initial"
  /\ loading = FALSE
  /\ pendingUser = NoUser
  /\ pendingToken = ""
  /\ authError = ""
  /\ stored = NoStorage
  /\ request = NoRequest
  /\ authCalls = <<>>
  /\ authOp = "init"


\* =========================================================================
\*  OtpVerification: the resend cooldown
\* =========================================================================
\* the largest resendCooldown prop and the most onResend() calls in flight
MaxCooldown == 3
MaxPending == 2

\* the component mounts with resendCooldown = rc and starts the interval
OtpMount(rc) ==
  /\ ~otpMounted
  /\ otpOp = "init"
  /\ otpMounted' = TRUE
  /\ resendCooldown' = rc
  /\ timeRemaining' = rc
  /\ canResend' = FALSE
  /\ otpOp' = "OtpMount"
  /\ UNCHANGED <<otpError, resendPending, sinceResend>>
  /\ UNCHANGED <<trigVars, magVars, pinVars, snapVars,
                 provVars, boardVars, authVars>>

\* one firing of setInterval(..., 1000)
OtpTick ==
  /\ otpMounted
  /\ timeRemaining' = IF timeRemaining <= 1 THEN 0 ELSE timeRemaining - 1
  /\ canResend' = (canResend \/ timeRemaining <= 1)
  /\ sinceResend' = IF sinceResend = -1 \/ sinceResend >= MaxCooldown
                    THEN sinceResend ELSE sinceResend + 1
  /\ otpOp' = "OtpTick"
  /\ UNCHANGED <<otpMounted, resendCooldown, otpError, resendPending>>
  /\ UNCHANGED <<trigVars, magVars, pinVars, snapVars,
                 provVars, boardVars, authVars>>

\* a click on "Resend Code", rendered while canResend: handleResend up to
\* `await onResend()`
handleResend ==
  /\ otpMounted
  /\ canResend
  /\ resendPending < MaxPending
  /\ resendPending' = resendPending + 1
  /\ sinceResend' = 0
  /\ otpOp' = "handleResend"
  /\ UNCHANGED <<otpMounted, resendCooldown, timeRemaining, canResend, otpError>>
  /\ UNCHANGED <<trigVars, magVars, pinVars, snapVars,
                 provVars, boardVars, authVars>>

\* an onResend() promise settles: handleResend from its await on
ResendSettled(ok) ==
  /\ resendPending > 0
  /\ resendPending' = resendPending - 1
  /\ IF ~otpMounted
     THEN UNCHANGED <<timeRemaining, canResend, otpError>>
     ELSE IF ok
          THEN /\ timeRemaining' = resendCooldown
               /\ canResend' = FALSE
               /\ otpError' = ""
          ELSE /\ otpError' = "Failed to resend OTP. Please try again."
               /\ UNCHANGED <<timeRemaining, canResend>>
  /\ otpOp' = "ResendSettled"
  /\ UNCHANGED <<otpMounted, resendCooldown, sinceResend>>
  /\ UNCHANGED <<trigVars, magVars, pinVars, snapVars,
                 provVars, boardVars, authVars>>

\* the component unmounts: clearInterval
OtpUnmount ==
  /\ otpMounted
  /\ otpMounted' = FALSE
  /\ otpOp' = "OtpUnmount"
  /\ UNCHANGED <<resendCooldown, timeRemaining, canResend, otpError,
                 resendPending, sinceResend>>
  /\ UNCHANGED <<trigVars, magVars, pinVars, snapVars,
                 provVars, boardVars, authVars>>

OtpInit ==
  /\ otpMounted = FALSE
  /\ resendCooldown = 1
  /\ timeRemaining = 0
  /\ canResend = FALSE
  /\ otpError = ""
  /\ resendPending = 0
  /\ sinceResend = -1
  /\ otpOp = "init"


\* =========================================================================
\*  Specifications
\* =========================================================================
Init == TrigInit /\ MagInit /\ PinInit /\ SnapInit /\ ProvInit /\ BoardInit /\ AuthInit
          /\ OtpInit

\* the scroll trigger hook with its scroll source
Next ==
  \/ \E cs \in StartSpecs, ce \in EndSpecs, l \in Layouts :
        Mount(cs, ce, l, DefaultConfig, {})
  \/ ImportResolved
  \/ ImportFailed
  \/ \E s \in Scrolls, emits \in BOOLEAN : RafTick(s, emits, {})
  \/ \E s \in Scrolls : NativeScroll(s, {})
  \/ \E cs \in StartSpecs, ce \in EndSpecs, cbNew \in BOOLEAN :
        ParentRerender(cs, ce, cbNew, DefaultConfig, {})
  \/ \E l \in Layouts : Resize(l, {})
  \/ Kill({})
  \/ Unmount

Spec == Init /\ [][Next]_vars

\* the scroll trigger hook driven through its scrub, timeline and
\* toggle-action configurations, on two layouts
AnimEndSpecs == {SymSpec("bottom", "top"), NumSpec(4)}

AnimLayouts ==
  { [top |-> 2, height |-> 2, win |-> 4], [top |-> 0, height |-> 4, win |-> 4] }

NextAnim ==
  \/ \E ce \in AnimEndSpecs, l \in AnimLayouts, c \in Configs :
        Mount(SymSpec("top", "top"), ce, l, c, {})
  \/ ImportResolved
  \/ ImportFailed
  \/ \E s \in Scrolls, emits \in BOOLEAN : RafTick(s, emits, {})
  \/ \E s \in Scrolls : NativeScroll(s, {})
  \/ \E ce \in AnimEndSpecs, cbNew \in BOOLEAN, c \in Configs :
        ParentRerender(SymSpec("top", "top"), ce, cbNew, c, {})
  \/ \E l \in AnimLayouts : Resize(l, {})
  \/ Kill({})
  \/ Unmount

SpecAnim == Init /\ [][NextAnim]_vars

\* the scroll trigger hook with consumer callbacks that may throw
Throwers == { {}, {"onEnter"}, {"onLeave"}, {"onUpdate"}, {"onRefresh"} }

NextThrow ==
  \/ \E ce \in AnimEndSpecs, l \in AnimLayouts, thr \in Throwers :
        Mount(SymSpec("top", "top"), ce, l, DefaultConfig, thr)
  \/ ImportResolved
  \/ ImportFailed
  \/ \E s \in Scrolls, emits \in BOOLEAN, thr \in Throwers : RafTick(s, emits, thr)
  \/ \E s \in Scrolls, thr \in Throwers : NativeScroll(s, thr)
  \/ \E ce \in AnimEndSpecs, cbNew \in BOOLEAN, thr \in Throwers :
        ParentRerender(SymSpec("top", "top"), ce, cbNew, DefaultConfig, thr)
  \/ \E l \in AnimLayouts, thr \in Throwers : Resize(l, thr)
  \/ \E thr \in Throwers : Kill(thr)
  \/ Unmount

SpecThrow == Init /\ [][NextThrow]_vars

\* the scroll trigger hook with ScrollTriggerUtils.refresh
NextRefresh ==
  \/ \E ce \in AnimEndSpecs, l \in AnimLayouts :
        Mount(SymSpec("top", "top"), ce, l, DefaultConfig, {})
  \/ ImportResolved
  \/ ImportFailed
  \/ \E s \in Scrolls, emits \in BOOLEAN : RafTick(s, emits, {})
  \/ \E s \in Scrolls : NativeScroll(s, {})
  \/ \E ce \in AnimEndSpecs, cbNew \in BOOLEAN :
        ParentRerender(SymSpec("top", "top"), ce, cbNew, DefaultConfig, {})
  \/ \E l \in AnimLayouts : Resize(l, {})
  \/ RefreshAll
  \/ Kill({})
  \/ Unmount

SpecRefresh == Init /\ [][NextRefresh]_vars

\* the magnetic effect
NextMagnetic ==
  \/ \E d \in DeltaSamples : handleMouseMove(d)
  \/ \E d \in DeltaSamples : handleTouchMove(d)
  \/ handleMouseLeave
  \/ handleTouchEnd
  \/ onKeyDown
  \/ \E b \in {"attract", "repel", "follow"} : setBehavior(b)
  \/ SpringFrame

SpecMagnetic == Init /\ [][NextMagnetic]_vars

\* the pin component with its scroll source
NextPin ==
  \/ \E l \in Layouts, spacing \in BOOLEAN : PinMount(l, spacing)
  \/ PinImportResolved
  \/ PinImportFailed
  \/ \E s \in Scrolls, emits \in BOOLEAN : PinRafTick(s, emits)
  \/ \E s \in Scrolls : PinNativeScroll(s)
  \/ \E spacing \in BOOLEAN : PinRerender(spacing)
  \/ PinUnmount

SpecPin == Init /\ [][NextPin]_vars

\* the snap component with its scroll source
NextSnap ==
  \/ \E points \in SnapLists : SnapMount(points)
  \/ SnapImportResolved
  \/ SnapImportFailed
  \/ \E p \in Progresses, emits \in BOOLEAN : SnapRafTick(p, emits)
  \/ \E p \in Progresses : SnapNativeScroll(p)
  \/ \E points \in SnapLists : SnapRerender(points)
  \/ SnapUnmount

SpecSnap == Init /\ [][NextSnap]_vars

NextProvider ==
  \/ ProvMount
  \/ LenisArrives
  \/ \E b \in BOOLEAN : SetEnabled(b)
  \/ \E fn \in {"scrollTo", "start", "stop", "resize"} : Forward(fn)
  \/ destroy
  \/ \E e \in Events, cb \in Callbacks : on(e, cb)
  \/ \E e \in Events, cb \in Callbacks : off(e, cb)
  \/ \E e \in Events : emit(e)
  \/ ProvUnmount

SpecProvider == Init /\ [][NextProvider]_vars

\* a page with one trigger, one pin component and one snap component, each
\* calling useLenis
NextConsumers ==
  \/ Mount(SymSpec("top", "top"), SymSpec("bottom", "top"),
          [top |-> 0, height |-> 4, win |-> 4],
           DefaultConfig, {})
  \/ ImportResolved
  \/ ImportFailed
  \/ \E s \in Scrolls : RafTick(s, TRUE, {})
  \/ \E s \in Scrolls : NativeScroll(s, {})
  \/ Unmount
  \/ PinMount([top |-> 0, height |-> 4, win |-> 4], TRUE)
  \/ PinImportResolved
  \/ PinImportFailed
  \/ \E s \in Scrolls : PinRafTick(s, TRUE)
  \/ \E s \in Scrolls : PinNativeScroll(s)
  \/ PinUnmount
  \/ SnapMount(<<0, 50, 100>>)
  \/ SnapImportResolved
  \/ SnapImportFailed
  \/ \E p \in {0, 50, 100} : SnapRafTick(p, TRUE)
  \/ \E p \in {0, 50, 100} : SnapNativeScroll(p)
  \/ SnapUnmount

SpecConsumers == Init /\ [][NextConsumers]_vars

NextBoard ==
  \/ BoardMount
  \/ LoadingDone
  \/ \E fp \in {"all", "high"} : setFilterPriority(fp)
  \/ \E c \in ColumnIds, i \in 0..Len(initialTasks) : handleDragStart(c, i)
  \/ \E d \in BOOLEAN, c \in ColumnIds, i \in 0..Len(initialTasks) :
        handleDragEnd(d, c, i)

SpecBoard == Init /\ [][NextBoard]_vars

\* the authentication manager
NextAuth ==
  \/ AuthMount
  \/ AuthParentRerender
  \/ \E screen \in {"login", "signup"} : Select(screen)
  \/ \E email \in {"test@otp.com", "test@error.com", "student@college.edu"} :
        handleLogin(email)
  \/ \E email \in {"test@exists.com", "student@college.edu"} : handleSignup(email)
  \/ \E code \in {"000000", "123456"} : handleOTPVerify(code)
  \/ LoginSettled
  \/ SignupSettled
  \/ VerifySettled
  \/ handleBack
  \/ DayPasses

SpecAuth == Init /\ [][NextAuth]_vars

\* the OTP screen's resend cooldown
NextOtp ==
  \/ \E rc \in 1..MaxCooldown : OtpMount(rc)
  \/ OtpTick
  \/ handleResend
  \/ \E ok \in BOOLEAN : ResendSettled(ok)
  \/ OtpUnmount

SpecOtp == Init /\ [][NextOtp]_vars


\* =========================================================================
\*  Properties of the scroll trigger (specification Spec)
\* =========================================================================
ToggleNames == {"onEnter", "onLeave", "onEnterBack", "onLeaveBack"}

ToggleCalls(f) == SelectSeq(f, LAMBDA c : c.cb \in ToggleNames)

CallNames(f) == [i \in 1..Len(f) |-> f[i].cb]

SampleOps == {"RafTick", "NativeScroll"}

\* C1: while the trigger holds an instance, an operation on it (a scroll
\* sample, a re-render by the parent, a resize) invokes exactly one toggle
\* callback if it changes isActive and none if it does not.
C1_OneTogglePerChange ==
  [][(mounted /\ mounted' /\ ~instance.null /\ op' # "Kill")
       => Len(ToggleCalls(fired')) = (IF isActive' # isActive THEN 1 ELSE 0)]_vars

C1_Witness ==
  /\ mounted
  /\ op \in SampleOps
  /\ start < end
  /\ CallNames(ToggleCalls(fired)) = <<"onLeave">>

\* C2: after every operation isActive is start <= scroll <= end for the
\* current sample and the current start/end, and a live instance holds the
\* same value.
C2_IsActiveMatchesWindow ==
  mounted =>
    /\ isActive = (start <= scrollData.scroll /\ scrollData.scroll <= end)
    /\ ~instance.null => instance.isActive = isActive

C2_Witness ==
  /\ mounted
  /\ op \in SampleOps
  /\ start < end
  /\ scrollData.scroll = end
  /\ isActive
  /\ ~instance.null

\* C3: for end > start, progress is 0 up to start, 1 from end on, and
\* (scroll - start) / (end - start) in between.
C3_ProgressIsClampedFraction ==
  (mounted /\ end > start) =>
    LET s == scrollData.scroll
    IN /\ s <= start => progress = [num |-> 0, den |-> 1]
       /\ s >= end => progress = [num |-> 1, den |-> 1]
       /\ (start < s /\ s < end) =>
            /\ progress.den > 0
            /\ progress.num * (end - start) = (s - start) * progress.den
       /\ ~instance.null => instance.progress = progress

C3_Witness ==
  /\ mounted
  /\ op \in SampleOps
  /\ end = start + 4
  /\ scrollData.scroll = start + 2
  /\ progress = [num |-> 1, den |-> 2]

Phase(s, st, en) ==
  IF s < st THEN "before" ELSE IF s <= en THEN "active" ELSE "after"

\* C4: a scroll sample that moves the trigger before->active invokes
\* onEnter, active->after onLeave, after->active onEnterBack and
\* active->before onLeaveBack.
C4_DirectionalCallbacks ==
  [][(mounted /\ mounted' /\ ~instance.null /\ op' \in SampleOps /\ start <= end)
       => LET p == Phase(scrollData.scroll, start, end)
              q == Phase(scrollData'.scroll, start, end)
              called == CallNames(ToggleCalls(fired'))
          IN /\ (p = "before" /\ q = "active") => called = <<"onEnter">>
             /\ (p = "active" /\ q = "after") => called = <<"onLeave">>
             /\ (p = "after" /\ q = "active") => called = <<"onEnterBack">>
             /\ (p = "active" /\ q = "before") => called = <<"onLeaveBack">>]_vars

\* C6: once the component that owns the scroll source has unmounted, no
\* frame of the loop is scheduled, no native scroll listener is attached
\* and no sample is delivered.
C6_NoLoopAfterDestroy ==
  (everMounted /\ ~mounted) => (~src.raf /\ ~src.listener /\ ~delivered)

AnchorOffset(pos, size) ==
  CASE pos = "top" -> 0
    [] pos = "center" -> size \div 2
    [] pos = "bottom" -> size

Resolved(spec, l) ==
  l.top + AnchorOffset(spec.el, l.height) - AnchorOffset(spec.vp, l.win)

\* C7: a symbolic start (end) of a mounted trigger is resolved to
\* elementTop + elementAnchorOffset - viewportAnchorOffset.
C7_SymbolicBoundaryResolved ==
  mounted =>
    /\ cfgStart.kind = "string" => start = Resolved(cfgStart, layout)
    /\ cfgEnd.kind = "string" => end = Resolved(cfgEnd, layout)

\* C8: a resize that changes the layout of a trigger whose start and end
\* were the resolver's result for the old layout leaves start and end equal
\* to the resolver's result for the new layout, with isActive evaluated
\* against them for the same scroll sample.
C8_ResizeRecomputes ==
  [][(/\ mounted
      /\ op' = "Resize"
      /\ layout' # layout
      /\ [start |-> start, end |-> end]
           = calculateTriggerPoints(TRUE, cfgStart, cfgEnd, layout))
       => LET tp == calculateTriggerPoints(TRUE, cfgStart, cfgEnd, layout')
          IN /\ start' = tp.start
             /\ end' = tp.end
             /\ scrollData' = scrollData
             /\ isActive' = (tp.start <= scrollData.scroll /\ scrollData.scroll <= tp.end)]_vars

\* C17: a mounted trigger whose window, as resolved from its configuration
\* and layout, has end <= start is not active at any scroll value, and its
\* progress is 0 for scroll < start and 1 for scroll >= start.
C17_DegenerateWindowInactive ==
  (/\ mounted
   /\ [start |-> start, end |-> end]
        = calculateTriggerPoints(TRUE, cfgStart, cfgEnd, layout)
   /\ end <= start)
    => /\ ~isActive
       /\ scrollData.scroll < start => progress = [num |-> 0, den |-> 1]
       /\ scrollData.scroll >= start => progress = [num |-> 1, den |-> 1]

\* C22: a single scroll sample that carries the trigger across both
\* boundaries invokes the callbacks of both crossed transitions in order:
\* onEnter then onLeave going down, onEnterBack then onLeaveBack going up.
C22_BothTransitionsFire ==
  [][(mounted /\ mounted' /\ ~instance.null /\ op' \in SampleOps /\ start < end)
       => LET p == Phase(scrollData.scroll, start, end)
              q == Phase(scrollData'.scroll, start, end)
              called == CallNames(ToggleCalls(fired'))
          IN /\ (p = "before" /\ q = "after") => called = <<"onEnter", "onLeave">>
             /\ (p = "after" /\ q = "before")
                  => called = <<"onEnterBack", "onLeaveBack">>]_vars

\* C26: when the dynamic import settles after the owning component has
\* unmounted, what the initialisation creates does not stay active: no
\* frame loop is scheduled, no native scroll listener is attached and an
\* engine instance, if one was created, is destroyed.
C26_NoEngineAfterLateInit ==
  [][(everMounted /\ ~mounted /\ src.phase = "importing"
        /\ op' \in {"ImportResolved", "ImportFailed"})
       => /\ ~src'.raf
          /\ ~src'.listener
          /\ (src'.phase = "enhanced" => src'.destroyed)]_vars

\* C27: once handle.kill() has been called, a following scroll sample
\* invokes no lifecycle callback of the trigger and leaves its instance
\* null.
C27_KilledStaysSilent ==
  [][(mounted /\ mounted' /\ op = "Kill" /\ instance.null /\ op' \in SampleOps)
       => (instance'.null /\ fired' = <<>>)]_vars

\* C28: every lifecycle callback the last operation invoked received a
\* non-null trigger instance.
C28_CallbacksGetInstance ==
  \A i \in 1..Len(fired) : ~fired[i].self.null

\* C21: after ScrollTriggerUtils.refresh() the start and end of the mounted
\* trigger are the resolver's output for its element in the current
\* layout (specification SpecRefresh).
C21_RefreshAllRecomputes ==
  (mounted /\ op = "RefreshAll") =>
    [start |-> start, end |-> end]
      = calculateTriggerPoints(TRUE, cfgStart, cfgEnd, layout)

\* =========================================================================
\*  Properties of the scrub, timeline and toggle-action effects
\*  (specification SpecAnim)
\* =========================================================================
ScrubSets(calls) == SelectSeq(calls, LAMBDA c : c.fn = "set" /\ c.by = "scrub")

\* C14: in scrub mode a scroll sample that leaves the trigger active with
\* a new progress sets every property declared in animation.from or
\* animation.to, each one declared in both to from + (to - from) * progress;
\* a sample that leaves the trigger inactive sets nothing.
C14_ScrubSetsDeclaredProperties ==
  [][(mounted /\ mounted' /\ config'.scrub /\ op' \in SampleOps)
       => LET declared == DOMAIN config'.from \cup DOMAIN config'.to
              sets == ScrubSets(controlCalls')
          IN IF isActive'
             THEN (progress' # progress \/ isActive' # isActive) =>
                    /\ Len(sets) = 1
                    /\ DOMAIN sets[1].values = declared
                    /\ \A k \in DOMAIN config'.from \cap DOMAIN config'.to :
                         sets[1].values[k]
                           = Lerp(config'.from[k], config'.to[k], progress')
             ELSE sets = <<>>]_vars

TimelineSets(calls) == SelectSeq(calls, LAMBDA c : c.fn = "set" /\ c.by = "timeline")

\* indices of the keyframes whose progress is <= prog
Reached(frames, prog) ==
  {i \in 1..Len(frames) : RatLeq(frames[i].progress, prog)}

\* C15: in timeline mode (keyframes sorted ascending), while the trigger
\* is active at a numeric progress, the properties applied by an operation
\* are those of the last keyframe whose progress is <= the current
\* progress, and never those of a keyframe whose progress is greater.
C15_TimelineFloorSelection ==
  (mounted /\ config.hasTimeline /\ isActive /\ progress.den # 0) =>
    LET frames == config.timeline
        reached == Reached(frames, progress)
        sets == TimelineSets(controlCalls)
    IN \A n \in 1..Len(sets) :
         /\ \A i \in (1..Len(frames)) \ reached :
              sets[n].values # AsRats(frames[i].properties)
         /\ reached # {} =>
              sets[n].values
                = AsRats(frames[CHOOSE i \in reached :
                                  \A j \in reached : j <= i].properties)

StartCalls(calls) == SelectSeq(calls, LAMBDA c : c.fn = "start")

\* the action a controls.start call stands for: start(animation.to) made
\* on entering plays the animation, start(animation.from) made on leaving
\* reverses it
ForwardedActions(calls) ==
  [i \in 1..Len(StartCalls(calls)) |->
     IF StartCalls(calls)[i].by = "onEnter" THEN "play" ELSE "reverse"]

ConfiguredAction(c, transition) ==
  IF transition = "onEnter" THEN c.onEnter ELSE c.onLeave

\* C16: when an operation fires a transition, the action configured for
\* that transition in toggleActions is what the animation controls
\* receive, whichever of play, pause, resume, reset, restart, complete,
\* reverse it is (nothing for none).
C16_ToggleActionForwarded ==
  mounted =>
    \A i \in 1..Len(ToggleCalls(fired)) :
      LET action == ConfiguredAction(config, ToggleCalls(fired)[i].cb)
      IN IF action = "none"
         THEN StartCalls(controlCalls) = <<>>
         ELSE ForwardedActions(controlCalls) = <<action>>

\* =========================================================================
\*  Properties of throwing consumer callbacks (specification SpecThrow)
\* =========================================================================

\* C19: an exception thrown by a lifecycle callback (onEnter, onLeave,
\* onUpdate, onRefresh) does not leave the hook, and the other callbacks
\* due for the same scroll sample are still invoked: a sample that fires a
\* toggle callback also invokes onUpdate.
C19_CallbackThrowContained ==
  /\ ~escaped
  /\ (op \in SampleOps /\ ToggleCalls(fired) # <<>>)
       => \E i \in 1..Len(fired) : fired[i].cb = "onUpdate"

\* =========================================================================
\*  Properties of the magnetic effect (specification SpecMagnetic)
\* =========================================================================
HoverExpected(d, hovering) ==
  LET distance == SqrtOf(d[1], d[2])
  IN IF distance <= range /\ ~hovering THEN <<TRUE>>
     ELSE IF distance > range /\ hovering THEN <<FALSE>>
     ELSE <<>>

\* C9: a pointer-move sample (mouse or touch) calls onHover(true) exactly
\* when it is within range and the controller was not hovering,
\* onHover(false) exactly when it is out of range and the controller was
\* hovering; after an out-of-range sample the displacement is zero.
C9_HoverOnTransitionsOnly ==
  [][\A d \in DeltaSamples :
        (handleMouseMove(d) \/ handleTouchMove(d))
          => /\ hoverLog' = HoverExpected(d, isHovering)
             /\ SqrtOf(d[1], d[2]) > range => Displacement' = <<0, 0>>]_vars

BehaviorFactor(beh) ==
  IF beh = "repel" THEN -1 ELSE IF beh = "follow" THEN 2 ELSE 1

\* C10: with the pointer at (dx, dy), d = |(dx, dy)| <= range, and the
\* springs at rest, the displacement is
\* (dx, dy) * strength * max(0, 1 - d / range), unchanged for attract,
\* negated for repel, doubled for follow.
C10_SettledDisplacement ==
  (near /\ isHovering /\ x = mouseX /\ y = mouseY) =>
    LET d == SqrtOf(mouseX, mouseY)
        f == BehaviorFactor(behavior)
    IN Displacement = << f * mouseX * StrengthNum * (range - d),
                         f * mouseY * StrengthNum * (range - d) >>

\* C11: a pointer leave while the element is displaced resets the target
\* to (0, 0) and leaves the displacement on the spring's way to zero: the
\* displacement is not (0, 0) in the state right after the leave event.
C11_LeaveSettlesThroughSpring ==
  [][(handleMouseLeave /\ Displacement # <<0, 0>>)
       => /\ mouseX' = 0
          /\ mouseY' = 0
          /\ Displacement' # <<0, 0>>]_vars

\* =========================================================================
\*  Properties of the pin component (specification SpecPin)
\* =========================================================================

\* C12: with [s, e] the window resolved from the container's document-space
\* top and height, after every scroll sample the content is fixed with
\* offset max(0, scroll - s) if and only if s <= scroll <= e, and in normal
\* flow without offset otherwise; the placeholder is (e - s) + viewport
\* height high.
C12_PinnedInsideResolvedWindow ==
  (pinMounted /\ pinOp \in {"PinRafTick", "PinNativeScroll"}) =>
    LET w == PinWindow(TRUE, pinLayout)
        inside == w.start <= pinScroll /\ pinScroll <= w.end
    IN /\ inside => /\ ContentPosition = "fixed"
                    /\ ContentTransform.kind = "translateY"
                    /\ ContentTransform.px = Max(0, pinScroll - w.start)
       /\ ~inside => /\ ContentPosition = "relative"
                     /\ ContentTransform.kind = "none"
       /\ pinSpacing =>
            PlaceholderHeight = [kind |-> "px", px |-> (w.end - w.start) + pinLayout.win]

\* =========================================================================
\*  Properties of the snap component (specification SpecSnap)
\* =========================================================================
SnapDistance(i) == Abs(snapPoints[i + 1] - snapProgress)

\* C13: for any snapPoints list, ascending or not, the selected index
\* minimises |snapPoints[i] - progress| and is the lowest index that does
\* (for [0, 0.5, 1]: index 1 at progress 0.3, index 2 at 0.76); the
\* animation target is a translation by index * 100% (y = -index * 100%).
C13_ClosestSnapLowestIndex ==
  (snapMounted /\ Len(snapPoints) > 0) =>
    /\ activeSnap \in 0..(Len(snapPoints) - 1)
    /\ \A j \in 0..(Len(snapPoints) - 1) :
         /\ SnapDistance(activeSnap) <= SnapDistance(j)
         /\ j < activeSnap => SnapDistance(activeSnap) < SnapDistance(j)
    /\ (snapPoints = <<0, 50, 100>> /\ snapProgress = 30) => activeSnap = 1
    /\ (snapPoints = <<0, 50, 100>> /\ snapProgress = 76) => activeSnap = 2
    /\ SnapY = 0 - (activeSnap * 100)

\* an unordered list with a tie between index 0 (0.5) and index 1 (1)
C13_Witness ==
  /\ snapMounted
  /\ snapOp \in {"SnapRafTick", "SnapNativeScroll"}
  /\ snapPoints = <<50, 100, 0>>
  /\ snapProgress = 75
  /\ activeSnap = 0

\* =========================================================================
\*  Properties of the smooth scroll provider (specification SpecProvider)
\* =========================================================================
ControlMethods ==
  {"scrollTo", "start", "stop", "resize", "destroy", "on", "off", "emit"}

\* C18: once destroy() has been called, a call of scrollTo, start, stop,
\* resize, destroy, on, off or emit leaves isInitialized and the registry
\* unchanged, forwards nothing to the engine and invokes no subscriber.
C18_NoOpAfterDestroy ==
  [][(provMounted /\ destroyCalled /\ provOp' \in ControlMethods)
       => /\ isInitialized' = isInitialized
          /\ eventCallbacks' = eventCallbacks
          /\ engineCalls' = <<>>
          /\ invoked' = <<>>]_vars

\* C29: emit(event) invokes exactly the callbacks subscribed to the event
\* with on() and not removed with off(), each of them once.
C29_EmitReachesSubscribers ==
  (provMounted /\ provOp = "emit") =>
    /\ {invoked[i] : i \in 1..Len(invoked)} = subscribed[emitted]
    /\ \A i, j \in 1..Len(invoked) : invoked[i] = invoked[j] => i = j

\* =========================================================================
\*  Properties of the scroll consumers together (specification SpecConsumers)
\* =========================================================================
Consumers == {"trigger", "pin", "snap"}

SourceOf(c) ==
  CASE c = "trigger" -> src
    [] c = "pin" -> pinSrc
    [] c = "snap" -> snapSrc

\* the consumers whose useLenis holds an engine that has not been destroyed
EnginesAlive ==
  {c \in Consumers : SourceOf(c).phase = "enhanced" /\ ~SourceOf(c).destroyed}

\* C20: at most one engine with its frame loop is alive however many
\* consumers are mounted, and the mounted consumers that have an engine
\* hold the same scroll sample.
C20_SingleSharedSource ==
  /\ Cardinality(EnginesAlive) <= 1
  /\ (mounted /\ pinMounted /\ {"trigger", "pin"} \subseteq EnginesAlive)
       => scrollData.scroll = pinScroll


\* =========================================================================
\*  Properties of the task board (specification SpecBoard)
\* =========================================================================
AllTaskIds(cols) ==
  UNION {{cols[c][i].id : i \in 1..Len(cols[c])} : c \in ColumnIds}

TaskCount(cols) ==
  Len(cols["todo"]) + Len(cols["inprogress"]) + Len(cols["completed"])

\* C23: a drop whose destination differs from the source position keeps
\* the task ids of the board (none lost, none duplicated) and puts the
\* dragged task into the destination column.
C23_DragConservesTasks ==
  [][(boardOp' = "handleDragEnd" /\ dropResult'.hasDestination
        /\ dropResult'.source # dropResult'.destination)
       => /\ AllTaskIds(columns') = AllTaskIds(columns)
          /\ TaskCount(columns') = TaskCount(columns)
          /\ \E i \in 1..Len(columns'[dropResult'.destination.droppableId]) :
               columns'[dropResult'.destination.droppableId][i].id
                 = dropResult'.draggableId]_vars


\* =========================================================================
\*  Properties of the authentication manager (specification SpecAuth)
\* =========================================================================
Authenticates ==
  stored' # stored \/ authCalls' # <<>>
    \/ (authState' = "authenticated" /\ authState # "authenticated")

\* C24: a login or signup that reports requiresOTP writes nothing to
\* storage, does not make authState 'authenticated' and does not invoke
\* onAuthenticated; while the verification is outstanding only a verifyOTP
\* call that succeeded does so; a failed verifyOTP leaves authState at
\* 'otp-verification', the storage as it is and onAuthenticated not called.
C24_AuthOnlyAfterVerifiedOTP ==
  [][/\ ((authOp' = "LoginSettled" /\ request.arg = "test@otp.com")
           \/ (authOp' = "SignupSettled" /\ request.arg # "test@exists.com"))
          => (~Authenticates /\ (authMounted => authState' = "otp-verification"))
     /\ (authState = "otp-verification" /\ Authenticates)
          => (authOp' = "VerifySettled" /\ request.arg # "000000")
     /\ (authOp' = "VerifySettled" /\ request.arg = "000000")
          => (~Authenticates /\ authState' = authState)]_vars

C24_Witness ==
  /\ authOp = "VerifySettled"
  /\ authState = "authenticated"
  /\ stored.user = pendingUser
  /\ authCalls = <<pendingUser>>


\* =========================================================================
\*  Properties of the OTP screen (specification SpecOtp)
\* =========================================================================
\* C25: onResend is invoked only when the countdown is at 0, and at least
\* resendCooldown ticks of the interval lie between two invocations.
C25_ResendRespectsCooldown ==
  [][otpOp' = "handleResend"
       => /\ timeRemaining = 0
          /\ sinceResend # -1 => sinceResend >= resendCooldown]_vars

====
